---- MODULE Spec2Model ----
(***************************************************************************)
(* Bio.SeqIO.FastaIO: the eager FASTA parser (SimpleFastaParser driven by  *)
(* FastaIterator) and the lazy one (FastaLazyIterator yielding             *)
(* FastaSeqRecProxy objects), over one seekable handle.                    *)
(*                                                                         *)
(* A string is a sequence of one-character strings; the handle is the file *)
(* content `stream` and the cursor `handle` (the value of handle.tell()).  *)
(* A caller parses the file eagerly, then iterates it lazily on the same   *)
(* handle (FastaLazyIterator begins with handle.seek(0)); between two      *)
(* yields of the lazy iterator the caller may move the cursor and may ask  *)
(* a proxy for a slice of its sequence.                                    *)
(***************************************************************************)
EXTENDS Integers, Sequences, FiniteSets

\* Longest file content explored.
MaxLen == 5

\* The characters a file is made of: the record marker, a letter, and three
\* kinds of whitespace (the line terminator among them).
Chars == {">", "a", " ", "\t", "\n"}

\* What str.rstrip(), str.strip() and str.split(None) treat as whitespace.
Whitespace == {" ", "\t", "\n", "\r", "\f"}

Streams == UNION {[1..n -> Chars] : n \in 0..MaxLen}

\* The title2ids argument: absent, or the take_upper of FastaIterator's docstring.
Title2Ids == {"None", "take_upper"}

VARIABLES
    stream,         \* the file content behind the handle
    title2ids,      \* the title2ids argument given to both iterators
    handle,         \* the handle's cursor, handle.tell()
    sfp_pc,         \* where SimpleFastaParser / FastaIterator stands
    line,           \* SimpleFastaParser: line
    title,          \* SimpleFastaParser: title
    lines,          \* SimpleFastaParser: lines
    records,        \* the SeqRecords FastaIterator has yielded
    pc,             \* where FastaLazyIterator stands
    position,       \* FastaLazyIterator: position
    next_position,  \* FastaLazyIterator: next_position
    proxies,        \* the FastaSeqRecProxy objects FastaLazyIterator has yielded
    seqread,        \* the outcome of the last _read_seq call, <<>> before any
    disturbed       \* the caller has moved the cursor between two yields

vars == <<stream, title2ids, handle, sfp_pc, line, title, lines, records,
          pc, position, next_position, proxies, seqread, disturbed>>

----------------------------------------------------------------------------
\* Strings

RECURSIVE rstrip(_)
rstrip(s) ==
    IF s = <<>> THEN <<>>
    ELSE IF s[Len(s)] \in Whitespace THEN rstrip(SubSeq(s, 1, Len(s) - 1))
    ELSE s

RECURSIVE lstrip(_)
lstrip(s) ==
    IF s = <<>> THEN <<>>
    ELSE IF s[1] \in Whitespace THEN lstrip(Tail(s))
    ELSE s

strip(s) == lstrip(rstrip(s))

\* s.replace(c, "")
RECURSIVE replace(_, _)
replace(s, c) ==
    IF s = <<>> THEN <<>>
    ELSE IF s[1] = c THEN replace(Tail(s), c)
    ELSE <<s[1]>> \o replace(Tail(s), c)

\* "".join(ls)
RECURSIVE join(_)
join(ls) == IF ls = <<>> THEN <<>> ELSE ls[1] \o join(Tail(ls))

\* The longest prefix of s without whitespace.
RECURSIVE word(_)
word(s) ==
    IF s = <<>> \/ s[1] \in Whitespace THEN <<>>
    ELSE <<s[1]>> \o word(Tail(s))

\* s.split(None, 1): the list of words, of which only the first is used;
\* the empty list when s holds no word.
split(s) == IF lstrip(s) = <<>> THEN <<>> ELSE <<word(lstrip(s))>>

upper(s) == [i \in 1..Len(s) |-> IF s[i] = "a" THEN "A" ELSE s[i]]

----------------------------------------------------------------------------
\* The handle

\* Offset of the end of the line that starts at offset p of s.
RECURSIVE lineend(_, _)
lineend(s, p) ==
    IF p >= Len(s) THEN Len(s)
    ELSE IF s[p + 1] = "\n" THEN p + 1
    ELSE lineend(s, p + 1)

\* handle.readline() with the cursor at p: the text up to and including the
\* next line terminator, the empty string at the end of the file.
readline(s, p) == SubSeq(s, p + 1, lineend(s, p))

\* handle.tell() after that readline.
tell_after(s, p) == lineend(s, p)

----------------------------------------------------------------------------
\* Titles and identities

\* take_upper of FastaIterator's docstring:
\*   return title.split(None, 1)[0].upper(), "", title
\* which raises IndexError on a title without a word.
take_upper(t) ==
    IF split(t) = <<>>
    THEN [raised |-> TRUE, id |-> <<>>, name |-> <<>>, descr |-> <<>>]
    ELSE [raised |-> FALSE, id |-> upper(split(t)[1]), name |-> <<>>, descr |-> t]

\* The default rule of FastaIterator: the first word is id and name, the
\* whole title the description; a title without a word gives "".
first_word_ids(t) ==
    LET first_word == IF split(t) = <<>> THEN <<>> ELSE split(t)[1]
    IN  [raised |-> FALSE, id |-> first_word, name |-> first_word, descr |-> t]

\* FastaIterator: the identity of the record made from a title.
FastaIterator_ids(t, t2i) ==
    IF t2i # "None" THEN take_upper(t) ELSE first_word_ids(t)

\* The prefix of s before its first space.
RECURSIVE before_space(_)
before_space(s) ==
    IF s = <<>> \/ s[1] = " " THEN <<>>
    ELSE <<s[1]>> \o before_space(Tail(s))

\* A slip for proxy_first_word_ids: title.split(" ", 1)[0].
proxy_first_word_ids_space(t) ==
    [raised |-> FALSE, id |-> before_space(t), name |-> before_space(t),
     descr |-> t]

\* _pre_index_record: the same default rule, written a second time there.
proxy_first_word_ids(t) ==
    LET first_word == IF split(t) = <<>> THEN <<>> ELSE split(t)[1]
    IN  [raised |-> FALSE, id |-> first_word, name |-> first_word, descr |-> t]

\* SimpleFastaParser: the sequence it yields from the collected lines.
sfp_sequence(ls) == replace(replace(join(ls), " "), "\r")

\* A slip for is_title_line: ">" in line.
is_title_line_anywhere(l) == \E k \in 1..Len(l) : l[k] = ">"

\* The test that starts a record, in both parsers: line[0] == ">".
is_title_line(l) == l[1] = ">"

----------------------------------------------------------------------------
\* FastaSeqRecProxy

\* A slip for pre_index_record: sequencewidth from firstseqline.rstrip().
pre_index_record_rstrip(s, start, t2i) ==
    LET titleline     == readline(s, start)
        t             == rstrip(Tail(titleline))
        sequencestart == tell_after(s, start)
        firstseqline  == readline(s, sequencestart)
        ids           == IF t2i # "None" THEN take_upper(t)
                         ELSE proxy_first_word_ids(t)
    IN  [start         |-> start,
         sequencestart |-> sequencestart,
         linewidth     |-> Len(firstseqline),
         sequencewidth |-> Len(rstrip(firstseqline)),
         raised        |-> ids.raised,
         id            |-> ids.id,
         name          |-> ids.name,
         descr         |-> ids.descr,
         cursor        |-> tell_after(s, sequencestart)]

\* _pre_index_record on a proxy whose _index["start"] is start: the index, the
\* identity, and where it leaves the cursor.
pre_index_record(s, start, t2i) ==
    LET titleline     == readline(s, start)
        t             == rstrip(Tail(titleline))
        sequencestart == tell_after(s, start)
        firstseqline  == readline(s, sequencestart)
        ids           == IF t2i # "None" THEN take_upper(t)
                         ELSE proxy_first_word_ids(t)
    IN  [start         |-> start,
         sequencestart |-> sequencestart,
         linewidth     |-> Len(firstseqline),
         sequencewidth |-> Len(strip(firstseqline)),
         raised        |-> ids.raised,
         id            |-> ids.id,
         name          |-> ids.name,
         descr         |-> ids.descr,
         cursor        |-> tell_after(s, sequencestart)]

\* FastaSeqRecProxy(handle, startoffset, alphabet, title2ids=None)
FastaSeqRecProxy(s, startoffset, t2i) == pre_index_record(s, startoffset, t2i)

\* _read_seq with _index_begin = begin and _index_end = end, the cursor at c:
\* the last statement evaluates the name intbegin, which nothing defines, so
\* the call raises NameError before any seek or read.
read_seq(p, begin, end, c) ==
    [raised |-> "NameError", seq |-> <<>>, cursor |-> c, sought |-> FALSE]

----------------------------------------------------------------------------
Init ==
    /\ stream \in Streams
    /\ title2ids \in Title2Ids
    /\ handle = 0
    /\ sfp_pc = "skip"
    /\ line = <<>>
    /\ title = <<>>
    /\ lines = <<>>
    /\ records = <<>>
    /\ pc = "idle"
    /\ position = -1
    /\ next_position = 0
    /\ proxies = <<>>
    /\ seqread = <<>>
    /\ disturbed = FALSE

lazy_vars == <<pc, position, next_position, proxies, seqread, disturbed>>
eager_vars == <<sfp_pc, line, title, lines, records>>

\* A slip for SkipToFirstRecord: the first line is taken for a title line
\* whatever it starts with.
SkipToFirstRecord_NoSkip ==
    /\ sfp_pc = "skip"
    /\ LET l == readline(stream, handle)
       IN  /\ line' = l
           /\ handle' = tell_after(stream, handle)
           /\ sfp_pc' = IF l = <<>> THEN "done" ELSE "record"
    /\ UNCHANGED <<stream, title2ids, title, lines, records>>
    /\ UNCHANGED lazy_vars

\* SimpleFastaParser, first loop: skip any text before the first record.
SkipToFirstRecord ==
    /\ sfp_pc = "skip"
    /\ LET l == readline(stream, handle)
       IN  /\ line' = l
           /\ handle' = tell_after(stream, handle)
           /\ sfp_pc' = IF l = <<>> THEN "done"
                        ELSE IF is_title_line(l) THEN "record"
                        ELSE "skip"
    /\ UNCHANGED <<stream, title2ids, title, lines, records>>
    /\ UNCHANGED lazy_vars

\* SimpleFastaParser, top of the second loop: the title line.
ReadTitle ==
    /\ sfp_pc = "record"
    /\ IF ~is_title_line(line)
       THEN /\ sfp_pc' = "ValueError"
            /\ UNCHANGED <<handle, line, title, lines>>
       ELSE /\ title' = rstrip(Tail(line))
            /\ lines' = <<>>
            /\ line' = readline(stream, handle)
            /\ handle' = tell_after(stream, handle)
            /\ sfp_pc' = "collect"
    /\ UNCHANGED <<stream, title2ids, records>>
    /\ UNCHANGED lazy_vars

\* SimpleFastaParser, inner loop: one sequence line.
CollectLine ==
    /\ sfp_pc = "collect"
    /\ IF line = <<>> \/ is_title_line(line)
       THEN /\ sfp_pc' = "yield"
            /\ UNCHANGED <<handle, line, lines>>
       ELSE /\ lines' = Append(lines, rstrip(line))
            /\ line' = readline(stream, handle)
            /\ handle' = tell_after(stream, handle)
            /\ sfp_pc' = "collect"
    /\ UNCHANGED <<stream, title2ids, title, records>>
    /\ UNCHANGED lazy_vars

\* SimpleFastaParser yields (title, sequence); FastaIterator makes the
\* SeqRecord of it and yields that; resumed, the parser returns at the end of
\* the file and goes on with the next title line otherwise.
YieldRecord ==
    /\ sfp_pc = "yield"
    /\ LET ids == FastaIterator_ids(title, title2ids)
       IN  IF ids.raised
           THEN /\ sfp_pc' = "IndexError"
                /\ UNCHANGED records
           ELSE /\ records' = Append(records,
                        [id |-> ids.id, name |-> ids.name,
                         description |-> ids.descr, title |-> title,
                         seq |-> sfp_sequence(lines)])
                /\ sfp_pc' = IF line = <<>> THEN "done" ELSE "record"
    /\ UNCHANGED <<stream, title2ids, handle, line, title, lines>>
    /\ UNCHANGED lazy_vars

eager_over == sfp_pc \in {"done", "ValueError", "IndexError"}

\* FastaLazyIterator up to its loop: handle.seek(0); position, next_position = -1, 0
StartLazy ==
    /\ eager_over
    /\ pc = "idle"
    /\ handle' = 0
    /\ position' = -1
    /\ next_position' = 0
    /\ pc' = "loop"
    /\ UNCHANGED <<stream, title2ids, proxies, seqread, disturbed>>
    /\ UNCHANGED eager_vars

\* FastaLazyIterator, one turn of the loop: read a line, and yield a proxy
\* when it is a title line. Indexing the empty line read at the end of the
\* file raises IndexError.
ScanLine ==
    /\ pc = "loop"
    /\ IF position = next_position
       THEN /\ pc' = "done"
            /\ UNCHANGED <<handle, position, next_position, proxies>>
       ELSE LET here         == handle
                line_read_in == readline(stream, here)
                after        == tell_after(stream, here)
            IN  /\ position' = here
                /\ next_position' = after
                /\ IF line_read_in = <<>>
                   THEN /\ pc' = "IndexError"
                        /\ handle' = after
                        /\ UNCHANGED proxies
                   ELSE IF is_title_line(line_read_in)
                   THEN LET proxy == FastaSeqRecProxy(stream, here, "None")
                        IN  /\ proxies' = Append(proxies, proxy)
                            /\ handle' = proxy.cursor
                            /\ pc' = "yielded"
                   ELSE /\ pc' = "loop"
                        /\ handle' = after
                        /\ UNCHANGED proxies
    /\ UNCHANGED <<stream, title2ids, seqread, disturbed>>
    /\ UNCHANGED eager_vars

\* A slip for Resume: the seek left out.
Resume_NoSeek ==
    /\ pc = "yielded"
    /\ pc' = "loop"
    /\ UNCHANGED <<stream, title2ids, handle, position, next_position, proxies,
                   seqread, disturbed>>
    /\ UNCHANGED eager_vars

\* FastaLazyIterator resumed after a yield: handle.seek(next_position)
Resume ==
    /\ pc = "yielded"
    /\ handle' = next_position
    /\ pc' = "loop"
    /\ UNCHANGED <<stream, title2ids, position, next_position, proxies,
                   seqread, disturbed>>
    /\ UNCHANGED eager_vars

\* The caller, holding the handle while the iterator is suspended at a yield,
\* seeks it anywhere.
CallerSeek ==
    /\ pc = "yielded"
    /\ \E p \in 0..Len(stream) :
          /\ p # handle
          /\ handle' = p
    /\ disturbed' = TRUE
    /\ UNCHANGED <<stream, title2ids, pc, position, next_position, proxies,
                   seqread>>
    /\ UNCHANGED eager_vars

\* The sequence text of the record whose first sequence line starts at
\* offset p: its lines up to the next title line or the end of the file,
\* each without its terminator and trailing whitespace.
RECURSIVE full_sequence(_, _)
full_sequence(s, p) ==
    LET l == readline(s, p)
    IN  IF l = <<>> \/ l[1] = ">" THEN <<>>
        ELSE rstrip(l) \o full_sequence(s, tell_after(s, p))

\* The caller asks a proxy it holds for the slice [begin, end) of its
\* sequence: _read_seq with _index_begin = begin and _index_end = end.
ReadSeq ==
    /\ pc \in {"yielded", "done", "IndexError"}
    /\ \E i \in 1..Len(proxies) :
          LET length == Len(full_sequence(stream, proxies[i].sequencestart))
          IN  \E begin \in 0..length : \E end \in begin..length :
                LET r == read_seq(proxies[i], begin, end, handle)
                IN  /\ seqread' = <<[proxy |-> i, begin |-> begin, end |-> end,
                                     raised |-> r.raised, seq |-> r.seq,
                                     sought |-> r.sought]>>
                    /\ handle' = r.cursor
    /\ UNCHANGED <<stream, title2ids, pc, position, next_position, proxies,
                   disturbed>>
    /\ UNCHANGED eager_vars

Next ==
    \/ SkipToFirstRecord
    \/ ReadTitle
    \/ CollectLine
    \/ YieldRecord
    \/ StartLazy
    \/ ScanLine
    \/ Resume
    \/ CallerSeek
    \/ ReadSeq

Spec == Init /\ [][Next]_vars

----------------------------------------------------------------------------
\* What the properties speak of, said of the file content alone.

lazy_over == pc \in {"done", "IndexError"}

\* The offsets of the lines whose first character is ">".
title_offsets(s) ==
    {p \in 0..(Len(s) - 1) : s[p + 1] = ">" /\ (p = 0 \/ s[p] = "\n")}

\* The line that starts at offset a ends at offset b.
line_spans(s, a, b) ==
    /\ a <= b /\ b <= Len(s)
    /\ \A k \in (a + 1)..(b - 1) : s[k] # "\n"
    /\ \/ b = Len(s)
       \/ b > a /\ s[b] = "\n"

is_prefix(a, b) == Len(a) <= Len(b) /\ SubSeq(b, 1, Len(a)) = a

\* d is raw without its trailing whitespace.
is_rstripped(d, raw) ==
    /\ is_prefix(d, raw)
    /\ d = <<>> \/ d[Len(d)] \notin Whitespace
    /\ \A k \in (Len(d) + 1)..Len(raw) : raw[k] \in Whitespace

\* w is the first whitespace-delimited token of t, "" when t holds none.
is_first_token(w, t) ==
    IF \A k \in 1..Len(t) : t[k] \in Whitespace
    THEN w = <<>>
    ELSE \E a \in 1..Len(t) :
            /\ \A k \in 1..(a - 1) : t[k] \in Whitespace
            /\ Len(w) >= 1
            /\ a + Len(w) - 1 <= Len(t)
            /\ w = SubSeq(t, a, a + Len(w) - 1)
            /\ \A k \in 1..Len(w) : w[k] \notin Whitespace
            /\ a + Len(w) > Len(t) \/ t[a + Len(w)] \in Whitespace

\* n is the length of l with the whitespace at both ends taken off.
is_stripped_length(n, l) ==
    IF \A k \in 1..Len(l) : l[k] \in Whitespace
    THEN n = 0
    ELSE \E i \in 1..Len(l) : \E j \in i..Len(l) :
            /\ l[i] \notin Whitespace /\ l[j] \notin Whitespace
            /\ \A k \in 1..(i - 1) : l[k] \in Whitespace
            /\ \A k \in (j + 1)..Len(l) : l[k] \in Whitespace
            /\ n = j - i + 1

\* The title text of the record that starts at offset p.
title_at(s, p) == rstrip(Tail(readline(s, p)))

\* The file ends with a title line that no line follows.
ends_with_bare_title(s) ==
    \E p \in title_offsets(s) : lineend(s, p) = Len(s)

----------------------------------------------------------------------------
\* C1: when FastaLazyIterator has been consumed to its end, it has yielded
\* one proxy per line whose first character is ">": as many proxies as there
\* are such lines, and their start offsets are the offsets of those lines.
C1_OneProxyPerTitleLine ==
    lazy_over =>
        /\ Len(proxies) = Cardinality(title_offsets(stream))
        /\ {proxies[i].start : i \in 1..Len(proxies)} = title_offsets(stream)

C1_Witness ==
    /\ lazy_over
    /\ Len(proxies) >= 2
    /\ \E p \in 1..(Len(stream) - 1) : stream[p] = "\n" /\ stream[p + 1] # ">"

\* C2: on an empty stream FastaLazyIterator yields no proxy and ends by
\* normal exhaustion, raising nothing.
C2_EmptyStreamExhausts ==
    (stream = <<>> /\ lazy_over) => (pc = "done" /\ proxies = <<>>)

\* C3 as claimed: a file whose first line does not start with ">" makes the
\* parser fail with its format error (ValueError).
C3_LeadingTextIsFormatError ==
    (eager_over /\ stream # <<>> /\ stream[1] # ">") => sfp_pc = "ValueError"

\* C3 as amended: text before the first title line is skipped, not refused.
\* SimpleFastaParser never raises its ValueError and, run to its end, has
\* yielded one record per line starting with ">"; FastaLazyIterator yields a
\* proxy only at the offset of a line starting with ">".
C3_LeadingTextIsSkipped ==
    /\ sfp_pc # "ValueError"
    /\ sfp_pc = "done" => Len(records) = Cardinality(title_offsets(stream))
    /\ \A i \in 1..Len(proxies) : proxies[i].start \in title_offsets(stream)

C3_Witness ==
    /\ sfp_pc = "done"
    /\ lazy_over
    /\ stream # <<>> /\ stream[1] # ">"
    /\ Len(records) >= 1
    /\ Len(proxies) >= 1

\* C4: with a title2ids function given to FastaLazyIterator, every proxy it
\* yields has (id, name, description) = title2ids(title).
C4_Title2IdsApplied ==
    title2ids = "take_upper" =>
        \A i \in 1..Len(proxies) :
            LET ids == take_upper(title_at(stream, proxies[i].start))
            IN  ~ids.raised =>
                    /\ proxies[i].id = ids.id
                    /\ proxies[i].name = ids.name
                    /\ proxies[i].descr = ids.descr

\* C5: with no title2ids, the i-th proxy has the identity of the i-th record
\* of FastaIterator: id and name are the first whitespace-delimited token of
\* the title ("" for a title without one), the description is the title text.
C5_LazyIdentityIsEagerIdentity ==
    title2ids = "None" =>
        \A i \in 1..Len(proxies) :
            /\ i <= Len(records)
            /\ proxies[i].id = records[i].id
            /\ proxies[i].name = records[i].name
            /\ proxies[i].descr = records[i].description
            /\ proxies[i].name = proxies[i].id
            /\ is_first_token(proxies[i].id, proxies[i].descr)
            /\ is_rstripped(proxies[i].descr,
                            Tail(readline(stream, proxies[i].start)))

C5_Witness ==
    /\ title2ids = "None"
    /\ lazy_over
    /\ \E i \in 1..Len(proxies) :
          /\ proxies[i].id # <<>>
          /\ proxies[i].id # proxies[i].descr
    /\ \E i \in 1..Len(proxies) : proxies[i].descr = <<>>

\* C6: a sequence read of [begin, end) with 0 <= begin <= end <= length seeks
\* into the record and returns the characters [begin, end) of its sequence.
C6_ReadSeqReturnsSlice ==
    seqread # <<>> =>
        LET c == seqread[1]
            p == proxies[c.proxy]
        IN  /\ c.raised = ""
            /\ c.sought
            /\ c.seq = SubSeq(full_sequence(stream, p.sequencestart),
                              c.begin + 1, c.end)

\* C7: every proxy's index has sequencestart at the end of the title line
\* that starts at start, linewidth the raw length of the line that starts at
\* sequencestart, sequencewidth the length of that line without the whitespace
\* at its ends, and sequencewidth <= linewidth.
C7_IndexGeometry ==
    \A i \in 1..Len(proxies) :
        LET p == proxies[i]
        IN  /\ p.start \in title_offsets(stream)
            /\ p.sequencestart > p.start
            /\ line_spans(stream, p.start, p.sequencestart)
            /\ line_spans(stream, p.sequencestart, p.sequencestart + p.linewidth)
            /\ is_stripped_length(p.sequencewidth,
                   SubSeq(stream, p.sequencestart + 1,
                          p.sequencestart + p.linewidth))
            /\ p.sequencewidth <= p.linewidth

C7_Witness ==
    /\ lazy_over
    /\ \E i \in 1..Len(proxies) : proxies[i].linewidth = 0
    /\ \E i \in 1..Len(proxies) :
          /\ proxies[i].sequencestart < Len(stream)
          /\ stream[proxies[i].sequencestart + 1] = ">"
    /\ \E i \in 1..Len(proxies) :
          /\ proxies[i].sequencewidth >= 1
          /\ proxies[i].sequencewidth < proxies[i].linewidth

\* C8: the sequence SimpleFastaParser returns for a record holds no
\* whitespace character of any kind.
C8_SequenceHasNoWhitespace ==
    \A i \in 1..Len(records) :
        \A k \in 1..Len(records[i].seq) : records[i].seq[k] \notin Whitespace

\* C9: a title line followed by the end of the stream is no error: both
\* parsers produce that record with an empty sequence and finish without
\* raising.
C9_BareTitleAtEndIsNoError ==
    (title2ids = "None" /\ eager_over /\ lazy_over
        /\ ends_with_bare_title(stream)) =>
            /\ sfp_pc = "done"
            /\ records # <<>> /\ records[Len(records)].seq = <<>>
            /\ pc = "done"
            /\ proxies # <<>> /\ proxies[Len(proxies)].linewidth = 0

\* C10: wherever the cursor is left while the iterator is suspended at a
\* yield, each turn of its loop starts at the offset just after the line of
\* the turn before (after the title line, when that turn yielded), so the
\* proxies yielded so far are those of the title lines before the cursor, in
\* file order.
C10_ScanIgnoresTheCursor ==
    pc = "loop" =>
        /\ handle = next_position
        /\ handle = 0 \/ (handle >= 1 /\ line_spans(stream, position, handle))
        /\ {proxies[i].start : i \in 1..Len(proxies)}
               = {p \in title_offsets(stream) : p < handle}
        /\ \A i \in 1..(Len(proxies) - 1) : proxies[i].start < proxies[i + 1].start
        /\ (proxies # <<>> /\ position = proxies[Len(proxies)].start)
               => handle = proxies[Len(proxies)].sequencestart

C10_Witness ==
    /\ pc = "loop"
    /\ disturbed
    /\ Len(proxies) >= 2
    /\ position = proxies[Len(proxies)].start

====
